---- MODULE Spec2Model ----
(***************************************************************************)
(* A model of the Trie of src/lib.rs.  A TrieNode is a value: a record of  *)
(* a children map (a function whose domain is the set of symbols that have *)
(* a child edge, as HashMap<char, Box<TrieNode>>) and the is_end_of_word   *)
(* flag.  A Box is an exclusively owned subtree, so the child is the       *)
(* nested record itself.  A symbol (char) is a one-character string and a  *)
(* word (&str) is a sequence of symbols.                                   *)
(***************************************************************************)
EXTENDS Integers, Sequences, FiniteSets, TLC

\* ---- bounds ----
MaxLen == 2       \* longest word passed to insert or to a query
MaxWords == 3     \* most distinct words inserted into one trie

\* the alphabet the words are drawn from
Char == {"a", "b"}

RECURSIVE WordsOfLen(_)
WordsOfLen(n) ==
    IF n = 0 THEN {<<>>}
    ELSE {Append(w, c) : w \in WordsOfLen(n - 1), c \in Char}

Words == UNION {WordsOfLen(n) : n \in 0..MaxLen}

\* the empty HashMap: a function with the empty domain
EmptyMap == [c \in {} |-> FALSE]

\* variant of TrieNode::new: the flag starts out true
TrieNodeNew_flagged == [children |-> EmptyMap, is_end_of_word |-> TRUE]

\* TrieNode::new
TrieNodeNew == [children |-> EmptyMap, is_end_of_word |-> FALSE]

\* Trie::new
TrieNew == [root |-> TrieNodeNew]

\* variant of the entry lookup: children.insert(char, fresh node), which
\* replaces a child that is already there
EntryOrInsert_replace(node, char) == TrieNodeNew

\* node.children.entry(char).or_insert(Box::new(TrieNode::new())): the child
\* already stored under char, or else the fresh node that gets stored
EntryOrInsert(node, char) ==
    IF char \in DOMAIN node.children THEN node.children[char] ELSE TrieNodeNew

\* variant of insert: the assignment after the loop is missing
RECURSIVE InsertFrom_noflag(_, _)
InsertFrom_noflag(node, word) ==
    IF word = <<>>
    THEN node
    ELSE LET char == Head(word)
             child == InsertFrom_noflag(EntryOrInsert(node, char), Tail(word))
         IN [node EXCEPT !.children =
                [c \in (DOMAIN node.children) \cup {char} |->
                    IF c = char THEN child ELSE node.children[c]]]

\* variant of insert: the assignment after the loop flips the flag
RECURSIVE InsertFrom_toggle(_, _)
InsertFrom_toggle(node, word) ==
    IF word = <<>>
    THEN [node EXCEPT !.is_end_of_word = ~node.is_end_of_word]
    ELSE LET char == Head(word)
             child == InsertFrom_toggle(EntryOrInsert(node, char), Tail(word))
         IN [node EXCEPT !.children =
                [c \in (DOMAIN node.children) \cup {char} |->
                    IF c = char THEN child ELSE node.children[c]]]

\* variant of insert: a node that gets a new child loses its other children
RECURSIVE InsertFrom_single(_, _)
InsertFrom_single(node, word) ==
    IF word = <<>>
    THEN [node EXCEPT !.is_end_of_word = TRUE]
    ELSE LET char == Head(word)
             child == InsertFrom_single(EntryOrInsert(node, char), Tail(word))
         IN [node EXCEPT !.children =
                IF char \in DOMAIN node.children
                THEN [c \in DOMAIN node.children |->
                        IF c = char THEN child ELSE node.children[c]]
                ELSE [c \in {char} |-> child]]

\* variant of insert: the loop clears the flag of every node it leaves
RECURSIVE InsertFrom_clear(_, _)
InsertFrom_clear(node, word) ==
    IF word = <<>>
    THEN [node EXCEPT !.is_end_of_word = TRUE]
    ELSE LET char == Head(word)
             child == InsertFrom_clear(EntryOrInsert(node, char), Tail(word))
         IN [children |->
                [c \in (DOMAIN node.children) \cup {char} |->
                    IF c = char THEN child ELSE node.children[c]],
             is_end_of_word |-> FALSE]

\* the loop of Trie::insert from `node` on, and the assignment after it; the
\* value is the node as the walk leaves it
RECURSIVE InsertFrom(_, _)
InsertFrom(node, word) ==
    IF word = <<>>
    THEN [node EXCEPT !.is_end_of_word = TRUE]
    ELSE LET char == Head(word)
             child == InsertFrom(EntryOrInsert(node, char), Tail(word))
         IN [node EXCEPT !.children =
                [c \in (DOMAIN node.children) \cup {char} |->
                    IF c = char THEN child ELSE node.children[c]]]

\* Trie::insert(&mut self, word): the trie after the call
insert(self, word) == [self EXCEPT !.root = InsertFrom(self.root, word)]

\* variant of search: a missing edge returns `prefix` instead of false
RECURSIVE SearchFrom_early(_, _, _)
SearchFrom_early(node, word, prefix) ==
    IF word = <<>>
    THEN IF prefix THEN TRUE ELSE node.is_end_of_word
    ELSE IF Head(word) \in DOMAIN node.children
         THEN SearchFrom_early(node.children[Head(word)], Tail(word), prefix)
         ELSE prefix

\* the loop of Trie::search from `node` on, and the result after it
RECURSIVE SearchFrom(_, _, _)
SearchFrom(node, word, prefix) ==
    IF word = <<>>
    THEN IF prefix THEN TRUE ELSE node.is_end_of_word
    ELSE IF Head(word) \in DOMAIN node.children
         THEN SearchFrom(node.children[Head(word)], Tail(word), prefix)
         ELSE FALSE

\* the walk of search done with children.entry(char).or_insert(..) instead
\* of children.get(&char): the node after the walk
RECURSIVE WalkEntry(_, _)
WalkEntry(node, word) ==
    IF word = <<>>
    THEN node
    ELSE LET char == Head(word)
             child == WalkEntry(EntryOrInsert(node, char), Tail(word))
         IN [node EXCEPT !.children =
                [c \in (DOMAIN node.children) \cup {char} |->
                    IF c = char THEN child ELSE node.children[c]]]

\* variant of search: it walks with entry().or_insert(), using its &mut self
search_entry(self, word, prefix) ==
    LET after == [self EXCEPT !.root = WalkEntry(self.root, word)]
    IN [self |-> after, ret |-> SearchFrom(after.root, word, prefix)]

\* variant of search: the prefix argument is ignored
search_ignoreprefix(self, word, prefix) ==
    [self |-> self, ret |-> SearchFrom(self.root, word, FALSE)]

\* Trie::search(&mut self, word, prefix): the trie after the call and the
\* value returned.  The walk goes through `&self.root` and `children.get`,
\* which store nothing.
search(self, word, prefix) ==
    [self |-> self, ret |-> SearchFrom(self.root, word, prefix)]

\* Trie::search_prefix
search_prefix(self, word) == search(self, word, TRUE)

\* variant of search_full_world: it passes prefix = true
search_full_world_asprefix(self, word) == search(self, word, TRUE)

\* Trie::search_full_world
search_full_world(self, word) == search(self, word, FALSE)

VARIABLES
    trie,       \* the Trie value
    inserted,   \* history: the words passed to insert so far
    lastOp,     \* the call that produced this state
    lastWord,   \* its argument
    lastRet,    \* its return value ("unit" for new and insert)
    repeated,   \* history: the call repeats the insert made just before it
    before      \* history: the Trie value as the call found it

vars == <<trie, inserted, lastOp, lastWord, lastRet, repeated, before>>

Init ==
    /\ trie = TrieNew
    /\ inserted = {}
    /\ lastOp = "new"
    /\ lastWord = <<>>
    /\ lastRet = "unit"
    /\ repeated = FALSE
    /\ before = TrieNew

DoInsert ==
    \E w \in Words :
        /\ Cardinality(inserted \cup {w}) <= MaxWords
        /\ trie' = insert(trie, w)
        /\ inserted' = inserted \cup {w}
        /\ lastOp' = "insert"
        /\ lastWord' = w
        /\ lastRet' = "unit"
        /\ repeated' = (lastOp = "insert" /\ lastWord = w)
        /\ before' = trie

DoSearchPrefix ==
    \E w \in Words :
        LET r == search_prefix(trie, w) IN
        /\ trie' = r.self
        /\ lastOp' = "search_prefix"
        /\ lastWord' = w
        /\ lastRet' = r.ret
        /\ repeated' = FALSE
        /\ before' = trie
        /\ UNCHANGED inserted

DoSearchFullWord ==
    \E w \in Words :
        LET r == search_full_world(trie, w) IN
        /\ trie' = r.self
        /\ lastOp' = "search_full_world"
        /\ lastWord' = w
        /\ lastRet' = r.ret
        /\ repeated' = FALSE
        /\ before' = trie
        /\ UNCHANGED inserted

Next == DoInsert \/ DoSearchPrefix \/ DoSearchFullWord

Spec == Init /\ [][Next]_vars

\* ---- the tree as the claims speak of it ----

\* p is w or a shorter beginning of w
IsPrefix(p, w) == Len(p) <= Len(w) /\ SubSeq(w, 1, Len(p)) = p

\* the symbol sequences spelled by the paths from `node` downwards
RECURSIVE Paths(_)
Paths(node) ==
    {<<>>} \cup UNION {{<<c>> \o p : p \in Paths(node.children[c])} :
                            c \in DOMAIN node.children}

\* the node at the end of path p from `node`
RECURSIVE NodeAt(_, _)
NodeAt(node, p) ==
    IF p = <<>> THEN node ELSE NodeAt(node.children[Head(p)], Tail(p))

\* the prefixes of the words inserted so far
InsertedPrefixes == {p \in Words : \E w \in inserted : IsPrefix(p, w)}

\* the trie built by inserting the words of S once each, in one fixed order
RECURSIVE BuildFrom(_)
BuildFrom(S) ==
    IF S = {} THEN TrieNew
    ELSE LET w == CHOOSE x \in S : TRUE
         IN insert(BuildFrom(S \ {w}), w)

\* ---- claims ----

\* C1: after any sequence of inserts, search_full_world(w) returns true if
\* and only if w itself was passed to an earlier insert.
C1_FullWordIffInserted ==
    \A w \in Words : search_full_world(trie, w).ret = (w \in inserted)

\* a full-word query of a never inserted strict prefix of an inserted word
\* has returned false
C1_Witness ==
    /\ lastOp = "search_full_world"
    /\ lastRet = FALSE
    /\ lastWord \notin inserted
    /\ \E w \in inserted : IsPrefix(lastWord, w)

\* C2 as stated: after any sequence of inserts (including none),
\* search_prefix(p) returns true if and only if some inserted word has p as
\* a prefix.
C2_PrefixIffPrefixOfInserted ==
    \A p \in Words :
        search_prefix(trie, p).ret = (\E w \in inserted : IsPrefix(p, w))

\* C2 amended: search_prefix(p) returns true if and only if p is the empty
\* word or some inserted word has p as a prefix.
C2_PrefixIffEmptyOrPrefixOfInserted ==
    \A p \in Words :
        search_prefix(trie, p).ret
            = (p = <<>> \/ \E w \in inserted : IsPrefix(p, w))

\* a prefix query of a word that is a prefix of no inserted word has returned
\* false on a trie that holds words
C2_Witness ==
    /\ lastOp = "search_prefix"
    /\ lastRet = FALSE
    /\ Cardinality(inserted) >= 2
    /\ \A w \in inserted : ~IsPrefix(lastWord, w)

\* C3: right after insert(w), search_full_world(w) is true and
\* search_prefix(p) is true for every prefix p of w, w included.
C3_InsertThenFound ==
    lastOp = "insert" =>
        /\ search_full_world(trie, lastWord).ret
        /\ \A p \in Words : IsPrefix(p, lastWord) => search_prefix(trie, p).ret

\* a word of full length has just been inserted into a trie that holds others
C3_Witness ==
    /\ lastOp = "insert"
    /\ Len(lastWord) = MaxLen
    /\ Cardinality(inserted) >= 2

\* C4: search_prefix of the empty word returns true in every reachable
\* state, the fresh trie included.
C4_EmptyPrefixAlwaysTrue == search_prefix(trie, <<>>).ret = TRUE

\* the empty prefix has been queried on a trie nothing was inserted into
C4_Witness ==
    /\ lastOp = "search_prefix"
    /\ lastWord = <<>>
    /\ lastRet = TRUE
    /\ inserted = {}

\* C5: the root's is_end_of_word is true if and only if insert was called
\* with the empty word, and search_full_world of the empty word says the same.
C5_RootFlagIffEmptyInserted ==
    /\ trie.root.is_end_of_word = (<<>> \in inserted)
    /\ search_full_world(trie, <<>>).ret = (<<>> \in inserted)

\* the empty word has just been inserted after a non-empty one
C5_Witness ==
    /\ lastOp = "insert"
    /\ lastWord = <<>>
    /\ Cardinality(inserted) >= 2
    /\ trie.root.is_end_of_word

\* C6 as stated: the paths of the tree spell exactly the prefixes of the
\* inserted words, and a node's flag is true if and only if its path is an
\* inserted word.
C6_PathsArePrefixes ==
    /\ Paths(trie.root) = InsertedPrefixes
    /\ \A p \in Paths(trie.root) :
            NodeAt(trie.root, p).is_end_of_word = (p \in inserted)

\* C6 amended: the paths of the tree spell exactly the empty sequence (the
\* root) and the prefixes of the inserted words, and a node's flag is true if
\* and only if its path is an inserted word.
C6_PathsAreRootAndPrefixes ==
    /\ Paths(trie.root) = {<<>>} \cup InsertedPrefixes
    /\ \A p \in Paths(trie.root) :
            NodeAt(trie.root, p).is_end_of_word = (p \in inserted)

\* a tree that branches at the root and has a node that ends no word
C6_Witness ==
    /\ Cardinality(inserted) = MaxWords
    /\ Cardinality(DOMAIN trie.root.children) >= 2
    /\ \E p \in Paths(trie.root) : p # <<>> /\ p \notin inserted

\* C7: insert(w) made right after insert(w) leaves the whole tree, and so
\* every query result, as the first call left it.
C7_InsertIdempotent ==
    (lastOp = "insert" /\ repeated) =>
        /\ trie = before
        /\ \A q \in Words :
            /\ search_prefix(trie, q).ret = search_prefix(before, q).ret
            /\ search_full_world(trie, q).ret
                    = search_full_world(before, q).ret

\* a non-empty word has been inserted twice in a row
C7_Witness ==
    /\ repeated
    /\ lastOp = "insert"
    /\ Len(lastWord) >= 1
    /\ Cardinality(inserted) >= 2

\* C8: whatever the order in which the words were inserted, every query
\* answers as on the trie built from the same set of words in one fixed
\* order.
C8_OrderIndependent ==
    LET fixed == BuildFrom(inserted) IN
    \A q \in Words :
        /\ search_prefix(trie, q).ret = search_prefix(fixed, q).ret
        /\ search_full_world(trie, q).ret = search_full_world(fixed, q).ret

\* the word inserted last is not the one the fixed order inserts last
C8_Witness ==
    /\ lastOp = "insert"
    /\ Cardinality(inserted) = MaxWords
    /\ lastWord # (CHOOSE x \in inserted : TRUE)

\* what insert(w) may change between the node `old` and the node `new`
InsertFrame(old, new, w) ==
    /\ \A p \in Paths(old) :
        /\ p \in Paths(new)
        /\ NodeAt(new, p).is_end_of_word
                = (NodeAt(old, p).is_end_of_word \/ p = w)
        /\ DOMAIN NodeAt(new, p).children
                = (DOMAIN NodeAt(old, p).children) \cup
                    (IF IsPrefix(p, w) /\ p # w THEN {w[Len(p) + 1]} ELSE {})
    /\ \A p \in Paths(new) \ Paths(old) :
        /\ IsPrefix(p, w)
        /\ NodeAt(new, p).is_end_of_word = (p = w)
    /\ w \in Paths(new)

\* C9: insert(w) keeps every node with its children and its flag, except
\* that the node at the end of w gets its flag set and the nodes on the path
\* of w may gain the edge for the next symbol of w; new nodes lie on that path.
C9_InsertFrame ==
    lastOp = "insert" => InsertFrame(before.root, trie.root, lastWord)

\* an insert has run through an inserted word into a tree that has a node
\* off its path
C9_Witness ==
    /\ lastOp = "insert"
    /\ Len(lastWord) = MaxLen
    /\ \E w \in inserted : w # lastWord /\ IsPrefix(w, lastWord)
    /\ \E p \in Paths(before.root) : ~IsPrefix(p, lastWord)

\* C10: search_prefix and search_full_world leave the tree as it was,
\* whatever they return.
C10_SearchReadOnly ==
    lastOp \in {"search_prefix", "search_full_world"} => trie = before

\* a query has stopped at a missing edge of a trie that holds words
C10_Witness ==
    /\ lastOp \in {"search_prefix", "search_full_world"}
    /\ lastRet = FALSE
    /\ lastWord \notin Paths(trie.root)
    /\ inserted # {}

====
